---- MODULE Spec2Model ----
(***************************************************************************)
(* Model of app.py of the Medical Safety Assistant: the three-layer term   *)
(* extraction (extract_terms), the interaction lookup                      *)
(* (query_ddi_database), the narrative adapter                             *)
(* (get_llm_details_from_openrouter) and the handler of the "Analyze"      *)
(* button.                                                                 *)
(*                                                                         *)
(* A Python str is a sequence of one-character strings.                    *)
(***************************************************************************)
EXTENDS Integers, Sequences, FiniteSets, TLC

(* ---------------------------------------------------------------------- *)
(* Bounds of the model                                                     *)
(* ---------------------------------------------------------------------- *)
\* longest input text drawn for extract_terms
MaxTextLen == 3
\* largest number of rows of ddi_interactions drawn for query_ddi_database
MaxRows == 2

(* ---------------------------------------------------------------------- *)
(* Strings                                                                 *)
(* ---------------------------------------------------------------------- *)
\* the characters input texts are drawn from
TextChars == {"a", "A", "b", " ", ",", "."}

\* str.lower() on one character
LowerChar(c) == IF c = "A" THEN "a" ELSE IF c = "B" THEN "b" ELSE c

\* str.lower()
Lower(s) == [k \in 1..Len(s) |-> LowerChar(s[k])]

\* str.replace(old, new) for one-character old and new
ReplaceChar(s, old, new) == [k \in 1..Len(s) |-> IF s[k] = old THEN new ELSE s[k]]

\* characters str.strip() and str.split() treat as whitespace
IsSpace(c) == c = " "

RECURSIVE LStrip(_)
LStrip(s) == IF s # <<>> /\ IsSpace(Head(s)) THEN LStrip(Tail(s)) ELSE s

RECURSIVE RStrip(_)
RStrip(s) ==
  IF s # <<>> /\ IsSpace(s[Len(s)]) THEN RStrip(SubSeq(s, 1, Len(s) - 1)) ELSE s

\* str.strip()
Strip(s) == RStrip(LStrip(s))

\* str.split() with no argument: the maximal runs of non-whitespace, as a set
\* (the code wraps the list in set(...) at once)
RECURSIVE SplitFrom(_, _, _)
SplitFrom(s, cur, acc) ==
  IF s = <<>> THEN (IF cur = <<>> THEN acc ELSE acc \cup {cur})
  ELSE IF IsSpace(Head(s))
       THEN SplitFrom(Tail(s), <<>>, IF cur = <<>> THEN acc ELSE acc \cup {cur})
       ELSE SplitFrom(Tail(s), Append(cur, Head(s)), acc)

SplitSet(s) == SplitFrom(s, <<>>, {})

\* str.replace("##", ""): leftmost non-overlapping occurrences removed
RECURSIVE RemoveHashes(_)
RemoveHashes(s) ==
  IF Len(s) >= 2 /\ s[1] = "#" /\ s[2] = "#" THEN RemoveHashes(SubSeq(s, 3, Len(s)))
  ELSE IF s = <<>> THEN <<>>
  ELSE <<Head(s)>> \o RemoveHashes(Tail(s))

\* all strings over a character set up to a length
RECURSIVE StringsUpTo(_, _)
StringsUpTo(chars, n) ==
  IF n = 0 THEN {<<>>}
  ELSE LET shorter == StringsUpTo(chars, n - 1)
       IN shorter \cup {Append(s, c) : s \in {t \in shorter : Len(t) = n - 1}, c \in chars}

Range(f) == {f[k] : k \in DOMAIN f}

\* every ordering of a finite set as a duplicate-free sequence: list(a_set)
Orderings(S) ==
  {q \in [1..Cardinality(S) -> S] : \A x \in S : \E k \in DOMAIN q : q[k] = x}

(* ---------------------------------------------------------------------- *)
(* State                                                                   *)
(* ---------------------------------------------------------------------- *)
VARIABLES
  \* module-level data of app.py, fixed after start-up
  drug_map,               \* Surface Form Map: dict, surface form -> canonical name
  drug_list,              \* canonical name list, in file order
  ner_pipeline,           \* TRUE: load_ner_model returned a pipeline; FALSE: None
  scorer,                 \* similarity score of thefuzz for a (query, choice) pair
  db_path,                \* TRUE: db_path is set and the file exists
  ddi_interactions,       \* rows <<drug1, drug2, level>> of the table, in scan order
  api_key,                \* TRUE: st.secrets has OPENROUTER_API_KEY
  \* one call of extract_terms
  text,                   \* the argument
  xpc,                    \* position in extract_terms
  potential_terms,
  words_to_check_further,
  found_canonical_terms,
  ner_outcome,            \* what the recognizer did in this call
  fuzzy_matches,          \* best_match of layer 3, per deferred term
  \* one call pair of query_ddi_database
  lpc,                    \* "call" before the two queries, "queried" after
  drug1, drug2,           \* the arguments
  ddi_fwd, ddi_rev,       \* query_ddi_database(drug1, drug2) and (drug2, drug1)
  \* one run of the script with the Analyze button pressed
  pc,                     \* position in the handler
  current_input, new_input,
  current_terms, new_terms,
  pair_i, pair_j,         \* indexes of the two for loops
  interaction_found,
  ddi,                    \* result of the lookup of the current pair
  events                  \* calls made and elements shown, in order

envVars == <<drug_map, drug_list, ner_pipeline, scorer, db_path, ddi_interactions, api_key>>
extractVars == <<text, xpc, potential_terms, words_to_check_further,
                 found_canonical_terms, ner_outcome, fuzzy_matches>>
lookupVars == <<lpc, drug1, drug2, ddi_fwd, ddi_rev>>
handlerVars == <<pc, current_input, new_input, current_terms, new_terms,
                 pair_i, pair_j, interaction_found, ddi, events>>
vars == <<envVars, extractVars, lookupVars, handlerVars>>

\* Python's None
None == <<>>

(* ---------------------------------------------------------------------- *)
(* extract_terms                                                           *)
(* ---------------------------------------------------------------------- *)
\* fixed threshold of layer 3
ScoreCutoff == 90

\* text.lower().replace(',', ' ').replace('.', ' ').split(), as a set
PotentialTerms(t) == SplitSet(ReplaceChar(ReplaceChar(Lower(t), ",", " "), ".", " "))

\* a plausible slip: the map is consulted only when the name list is loaded
Layer1FoundNeedsList(terms) ==
  IF drug_list = <<>> THEN {} ELSE {drug_map[term] : term \in terms \cap DOMAIN drug_map}

\* layer 1: a term that is a key of drug_map adds its mapped name
Layer1Found(terms) == {drug_map[term] : term \in terms \cap DOMAIN drug_map}

\* a plausible slip: every term is passed on to layer 3
Layer1FurtherAll(terms) == terms

\* layer 1: any other term is kept for layer 3
Layer1Further(terms) == terms \ DOMAIN drug_map

\* entity['word'].strip().lower().replace("##", "")
EntityTerm(word) == RemoveHashes(Lower(Strip(word)))

\* a plausible slip: no recognizer, no result
RecognizerLayerOrNothing(found, outcome) ==
  IF ner_pipeline
  THEN found \cup {IF EntityTerm(w) \in DOMAIN drug_map THEN drug_map[EntityTerm(w)]
                   ELSE EntityTerm(w) : w \in Range(outcome.words)}
  ELSE {}

\* layer 2: skipped when ner_pipeline is None; an exception of the recognizer
\* or of the loop body ends the loop and is swallowed, the terms added before
\* it stay in the set
RecognizerLayer(found, outcome) ==
  IF ner_pipeline
  THEN found \cup {IF EntityTerm(w) \in DOMAIN drug_map THEN drug_map[EntityTerm(w)]
                   ELSE EntityTerm(w) : w \in Range(outcome.words)}
  ELSE found

\* a plausible slip: on equal scores the last choice wins
ExtractOneLast(term, choices, cutoff) ==
  LET ok == {k \in 1..Len(choices) : scorer[<<term, choices[k]>>] >= cutoff}
  IN IF ok = {} THEN None
     ELSE LET best == CHOOSE k \in ok :
                        \A m \in ok : \/ scorer[<<term, choices[m]>>] < scorer[<<term, choices[k]>>]
                                      \/ /\ scorer[<<term, choices[m]>>] = scorer[<<term, choices[k]>>]
                                         /\ k >= m
          IN <<choices[best], scorer[<<term, choices[best]>>]>>

\* fuzzy_process.extractOne(term, choices, score_cutoff=cutoff): the first of
\* the best-scoring choices as <<choice, score>>, None when no choice reaches
\* the cutoff
ExtractOne(term, choices, cutoff) ==
  LET ok == {k \in 1..Len(choices) : scorer[<<term, choices[k]>>] >= cutoff}
  IN IF ok = {} THEN None
     ELSE LET best == CHOOSE k \in ok :
                        \A m \in ok : \/ scorer[<<term, choices[m]>>] < scorer[<<term, choices[k]>>]
                                      \/ /\ scorer[<<term, choices[m]>>] = scorer[<<term, choices[k]>>]
                                         /\ k <= m
          IN <<choices[best], scorer[<<term, choices[best]>>]>>

\* a plausible slip: score_cutoff is left out of the call
Layer3MatchesNoCutoff(further) ==
  IF drug_list # <<>>
  THEN [term \in further |-> ExtractOne(term, drug_list, 0)]
  ELSE [term \in further |-> None]

\* layer 3: best_match of every deferred term; nothing when drug_list is empty
Layer3Matches(further) ==
  IF drug_list # <<>>
  THEN [term \in further |-> ExtractOne(term, drug_list, ScoreCutoff)]
  ELSE [term \in further |-> None]

Layer3Found(matches) == {matches[term][1] : term \in {u \in DOMAIN matches : matches[u] # None}}

\* extract_terms(text) as a set, before list(...)
extract_terms(t, outcome) ==
  IF Strip(t) = <<>> THEN {}
  ELSE RecognizerLayer(Layer1Found(PotentialTerms(t)), outcome)
         \cup Layer3Found(Layer3Matches(Layer1Further(PotentialTerms(t))))

(* ---------------------------------------------------------------------- *)
(* query_ddi_database                                                      *)
(* ---------------------------------------------------------------------- *)
\* a plausible slip: only the (drug1, drug2) order is matched
RowMatchesOneWay(row, d1, d2) ==
  Lower(row[1]) = Lower(d1) /\ Lower(row[2]) = Lower(d2)

\* the WHERE clause with its four parameters
\* (drug1.lower(), drug2.lower(), drug2.lower(), drug1.lower())
RowMatches(row, d1, d2) ==
  \/ (Lower(row[1]) = Lower(d1) /\ Lower(row[2]) = Lower(d2))
  \/ (Lower(row[1]) = Lower(d2) /\ Lower(row[2]) = Lower(d1))

\* query_ddi_database(d1, d2): None when the file is not available or no row
\* matches, else the dict {"level": ...} of the first matching row of the
\* scan, written as the one-field tuple <<level>>
query_ddi_database(d1, d2) ==
  IF ~db_path THEN None
  ELSE LET hits == {k \in 1..Len(ddi_interactions) : RowMatches(ddi_interactions[k], d1, d2)}
       IN IF hits = {} THEN None
          ELSE <<ddi_interactions[CHOOSE k \in hits : \A m \in hits : k <= m][3]>>

(* ---------------------------------------------------------------------- *)
(* get_llm_details_from_openrouter                                         *)
(* ---------------------------------------------------------------------- *)
\* what the POST to the completion API can come back with
Responses ==
  { "ok",               \* 2xx, JSON body with choices[0].message.content
    "connection_error", \* requests.post raises, no response
    "http_error_json",  \* non-2xx, JSON body
    "http_error_text",  \* non-2xx, body is not JSON
    "ok_not_json",      \* 2xx, body is not JSON
    "ok_no_choices" }   \* 2xx, JSON body without choices[0].message.content

\* get_llm_details_from_openrouter, by outcome:
\*   "completion"  the stripped completion text
\*   "key_missing" "Analysis unavailable: API key is missing."
\*   "api_error"   "Error retrieving detailed analysis from the API."
\*   "raised"      an exception leaves the function
\* Only requests.exceptions.RequestException is caught: the KeyError,
\* IndexError or TypeError of result['choices'][0]['message']['content'] is
\* not. response.json() on a body that is not JSON raises
\* requests.exceptions.JSONDecodeError, a RequestException without response.
get_llm_details_from_openrouter(response) ==
  IF ~api_key THEN "key_missing"
  ELSE CASE response = "ok" -> "completion"
         [] response \in {"connection_error", "http_error_json", "http_error_text"} -> "api_error"
         [] response = "ok_not_json" -> "api_error"
         [] response = "ok_no_choices" -> "raised"

(* ---------------------------------------------------------------------- *)
(* Data the model draws its environment from                               *)
(* ---------------------------------------------------------------------- *)
sa == <<"a">>
sA == <<"A">>
sb == <<"b">>
sab == <<"a", "b">>

EmptyMap == [term \in {} |-> <<>>]

\* contents of drug_map.json: none, a brand name mapped to another name, and
\* names mapped to themselves or to a differently cased spelling
MapChoices == {EmptyMap, (sa :> sb), (sa :> sa) @@ (sab :> sA)}

\* contents of drug_names.txt: lines are stripped, never empty, in any case
ListChoices == {<<>>, <<sA, sa>>, <<sa, sab>>, <<sb>>}

\* what one call of ner_pipeline(text) and the loop over its entities do:
\* the words handled before the loop ended, and whether it ended by raising
NerOutcomes ==
  { [words |-> <<>>, raises |-> FALSE],
    [words |-> << sA >>, raises |-> FALSE],
    [words |-> << <<" ", "#", "#", "b">>, sab >>, raises |-> FALSE],
    [words |-> <<>>, raises |-> TRUE],
    [words |-> << <<"a", "#", "#", "B">> >>, raises |-> TRUE] }

\* the recognizer is not called
NotCalled == [words |-> <<>>, raises |-> FALSE]

IsAlnum(c) == c \in {"a", "b", "A", "B"}

\* thefuzz.utils.full_process: non-alphanumerics to spaces, lowercase, strip
FullProcess(s) == Strip(Lower([k \in 1..Len(s) |-> IF IsAlnum(s[k]) THEN s[k] ELSE " "]))

\* scores of two strings that differ after full_process
NearScores == {89, 90, 95}

\* the tables thefuzz can produce on a set of (query, choice) pairs: 0 when a
\* processed string is empty, 100 exactly for equal processed strings
Scorers(pairs) ==
  { [p \in pairs |->
       IF FullProcess(p[1]) = <<>> \/ FullProcess(p[2]) = <<>> THEN 0
       ELSE IF FullProcess(p[1]) = FullProcess(p[2]) THEN 100
       ELSE g[p]] : g \in [pairs -> NearScores] }

(* ---------------------------------------------------------------------- *)
(* Specification of extract_terms alone                                    *)
(* ---------------------------------------------------------------------- *)
IdleLookup ==
  /\ lpc = "idle" /\ drug1 = <<>> /\ drug2 = <<>> /\ ddi_fwd = None /\ ddi_rev = None

IdleHandler ==
  /\ pc = "idle" /\ current_input = <<>> /\ new_input = <<>>
  /\ current_terms = <<>> /\ new_terms = <<>>
  /\ pair_i = 0 /\ pair_j = 0 /\ interaction_found = FALSE
  /\ ddi = None /\ events = <<>>

IdleExtract ==
  /\ text = <<>> /\ xpc = "idle"
  /\ potential_terms = {} /\ words_to_check_further = {}
  /\ found_canonical_terms = {} /\ ner_outcome = NotCalled
  /\ fuzzy_matches = <<>>

InitExtract ==
  /\ drug_map \in MapChoices
  /\ drug_list \in ListChoices
  /\ ner_pipeline \in BOOLEAN
  /\ text \in StringsUpTo(TextChars, MaxTextLen)
  /\ scorer \in Scorers(Layer1Further(PotentialTerms(text)) \X Range(drug_list))
  /\ db_path = TRUE /\ ddi_interactions = <<>> /\ api_key = TRUE
  /\ xpc = "call"
  /\ potential_terms = {} /\ words_to_check_further = {}
  /\ found_canonical_terms = {} /\ ner_outcome = NotCalled
  /\ fuzzy_matches = <<>>
  /\ IdleLookup /\ IdleHandler

\* lines 88-89: blank text returns [] at once
ReturnEmpty ==
  /\ xpc = "call" /\ Strip(text) = <<>>
  /\ xpc' = "returned"
  /\ UNCHANGED <<text, potential_terms, words_to_check_further,
                 found_canonical_terms, ner_outcome, fuzzy_matches>>
  /\ UNCHANGED <<envVars, lookupVars, handlerVars>>

\* lines 91-102
Layer1 ==
  /\ xpc = "call" /\ Strip(text) # <<>>
  /\ potential_terms' = PotentialTerms(text)
  /\ found_canonical_terms' = Layer1Found(potential_terms')
  /\ words_to_check_further' = Layer1Further(potential_terms')
  /\ xpc' = "layer2"
  /\ UNCHANGED <<text, ner_outcome, fuzzy_matches>>
  /\ UNCHANGED <<envVars, lookupVars, handlerVars>>

\* lines 106-117
Layer2 ==
  /\ xpc = "layer2"
  /\ \E outcome \in IF ner_pipeline THEN NerOutcomes ELSE {NotCalled} :
       /\ ner_outcome' = outcome
       /\ found_canonical_terms' = RecognizerLayer(found_canonical_terms, outcome)
  /\ xpc' = "layer3"
  /\ UNCHANGED <<text, potential_terms, words_to_check_further, fuzzy_matches>>
  /\ UNCHANGED <<envVars, lookupVars, handlerVars>>

\* lines 120-130
Layer3 ==
  /\ xpc = "layer3"
  /\ fuzzy_matches' = Layer3Matches(words_to_check_further)
  /\ found_canonical_terms' = found_canonical_terms \cup Layer3Found(fuzzy_matches')
  /\ xpc' = "returned"
  /\ UNCHANGED <<text, potential_terms, words_to_check_further, ner_outcome>>
  /\ UNCHANGED <<envVars, lookupVars, handlerVars>>

NextExtract == ReturnEmpty \/ Layer1 \/ Layer2 \/ Layer3

SpecExtract == InitExtract /\ [][NextExtract]_vars

(* ---------------------------------------------------------------------- *)
(* Properties of extract_terms                                             *)
(* ---------------------------------------------------------------------- *)
\* extract_terms has returned from a non-blank text
Returned == xpc = "returned" /\ Strip(text) # <<>>

\* C1 as stated: a token of the text that is verbatim an entry of the
\* canonical name list is in the result of extract_terms, whatever the
\* Surface Form Map maps it to.
C1_TokenInListIsInResult ==
  Returned =>
    \A tok \in PotentialTerms(text) :
      tok \in Range(drug_list) => tok \in found_canonical_terms

\* C1 amended: for a token of the text that is verbatim an entry of the
\* canonical name list, the result holds the name the Surface Form Map gives
\* for the token when the token is a key of the map, and otherwise the first
\* entry of the list that equals the token up to letter case (the token
\* itself unless another spelling of it comes earlier in the list).
C1_TokenInListIsResolved ==
  Returned =>
    \A tok \in PotentialTerms(text) :
      tok \in Range(drug_list) =>
        IF tok \in DOMAIN drug_map
        THEN drug_map[tok] \in found_canonical_terms
        ELSE \E k \in 1..Len(drug_list) :
               /\ Lower(drug_list[k]) = tok
               /\ \A m \in 1..(k - 1) : Lower(drug_list[m]) # tok
               /\ drug_list[k] \in found_canonical_terms

\* without recognizer, a text that is more than the bare token (other case,
\* separators) returns the listed token through layer 3 alone
C1_Witness ==
  /\ Returned /\ ~ner_pipeline
  /\ \E tok \in PotentialTerms(text) :
       /\ tok \in Range(drug_list) /\ tok \notin DOMAIN drug_map
       /\ tok # text
       /\ tok \in found_canonical_terms /\ found_canonical_terms = {tok}

\* C4: when the recognizer is unavailable or its invocation raises,
\* extract_terms still returns, with every layer-1 hit and every layer-3 hit
\* in the result; when the recognizer is unavailable the result is exactly
\* the union of the layer-1 and layer-3 hits.
C4_RecognizerFailureKeepsDictionaryHits ==
  LET hits1 == {drug_map[tok] : tok \in PotentialTerms(text) \cap DOMAIN drug_map}
      hits3 == {fuzzy_matches[tok][1] :
                  tok \in {u \in DOMAIN fuzzy_matches : fuzzy_matches[u] # None}}
  IN /\ (xpc = "layer3" /\ (~ner_pipeline \/ ner_outcome.raises))
          => hits1 \subseteq found_canonical_terms
     /\ (Returned /\ (~ner_pipeline \/ ner_outcome.raises))
          => (hits1 \cup hits3) \subseteq found_canonical_terms
     /\ (Returned /\ ~ner_pipeline) => found_canonical_terms = hits1 \cup hits3

\* no recognizer, and the result is one layer-1 hit plus one layer-3 hit
C4_Witness ==
  /\ Returned /\ ~ner_pipeline
  /\ PotentialTerms(text) \cap DOMAIN drug_map # {}
  /\ \E tok \in DOMAIN fuzzy_matches : fuzzy_matches[tok] # None
  /\ Cardinality(found_canonical_terms) = 2

\* C9 as stated: with an empty drug_list the result is the output of layer 2
\* alone, whatever the Surface Form Map holds.
C9_EmptyListLeavesLayer2Only ==
  (Returned /\ drug_list = <<>>) => found_canonical_terms = RecognizerLayer({}, ner_outcome)

\* C9 amended: with an empty drug_list layer 3 adds nothing, layer 1 still
\* adds the mapped name of every token that is a key of the Surface Form Map,
\* and the result is the union of layer 1 and layer 2; it is the output of
\* layer 2 alone when the Surface Form Map is empty as well.
C9_EmptyListDisablesLayer3Only ==
  LET hits1 == {drug_map[tok] : tok \in PotentialTerms(text) \cap DOMAIN drug_map}
  IN (Returned /\ drug_list = <<>>) =>
       /\ \A tok \in DOMAIN fuzzy_matches : fuzzy_matches[tok] = None
       /\ found_canonical_terms = hits1 \cup RecognizerLayer({}, ner_outcome)
       /\ (DOMAIN drug_map = {}) => found_canonical_terms = RecognizerLayer({}, ner_outcome)

\* empty list, loaded map: a layer-1 hit is returned that layer 2 did not give
C9_Witness ==
  /\ Returned /\ drug_list = <<>>
  /\ PotentialTerms(text) \cap DOMAIN drug_map # {}
  /\ found_canonical_terms # RecognizerLayer({}, ner_outcome)

\* C10: layer 3 looks at exactly the tokens that are not keys of the Surface
\* Form Map; for each it adds at most one name, an entry of the canonical
\* name list no other entry outscores, and only if that score is at least 90;
\* a token scoring below 90 against every entry adds nothing.
C10_FuzzyPassThreshold ==
  LET hits1 == {drug_map[tok] : tok \in PotentialTerms(text) \cap DOMAIN drug_map}
      hits3 == {fuzzy_matches[tok][1] :
                  tok \in {u \in DOMAIN fuzzy_matches : fuzzy_matches[u] # None}}
  IN Returned =>
       /\ DOMAIN fuzzy_matches = {tok \in PotentialTerms(text) : tok \notin DOMAIN drug_map}
       /\ \A tok \in DOMAIN fuzzy_matches :
            /\ fuzzy_matches[tok] # None =>
                 /\ fuzzy_matches[tok][1] \in Range(drug_list)
                 /\ scorer[<<tok, fuzzy_matches[tok][1]>>] >= 90
                 /\ \A n \in Range(drug_list) :
                      scorer[<<tok, n>>] <= scorer[<<tok, fuzzy_matches[tok][1]>>]
            /\ (\A n \in Range(drug_list) : scorer[<<tok, n>>] < 90)
                 => fuzzy_matches[tok] = None
       /\ found_canonical_terms = hits1 \cup RecognizerLayer({}, ner_outcome) \cup hits3
       /\ Cardinality(hits3) <= Cardinality(DOMAIN fuzzy_matches)

\* one token hits the map, one is accepted at exactly 90 ahead of an entry
\* scoring 89
C10_Witness ==
  /\ Returned
  /\ PotentialTerms(text) \cap DOMAIN drug_map # {}
  /\ \E tok \in DOMAIN fuzzy_matches :
       /\ fuzzy_matches[tok] # None /\ fuzzy_matches[tok][2] = 90
       /\ \E n \in Range(drug_list) : scorer[<<tok, n>>] = 89

(* ---------------------------------------------------------------------- *)
(* Specification of query_ddi_database alone                               *)
(* ---------------------------------------------------------------------- *)
\* names in the table and in the queries, and stored levels
LookupNames == {sa, sA, sb}
Levels == {sA, sb}

\* all tables of at most n rows
RECURSIVE TablesUpTo(_)
TablesUpTo(n) ==
  IF n = 0 THEN {<<>>}
  ELSE LET smaller == TablesUpTo(n - 1)
       IN smaller \cup {Append(t, r) : t \in {u \in smaller : Len(u) = n - 1},
                                       r \in LookupNames \X LookupNames \X Levels}

InitLookup ==
  /\ db_path \in BOOLEAN
  /\ ddi_interactions \in TablesUpTo(MaxRows)
  /\ drug1 \in LookupNames /\ drug2 \in LookupNames
  /\ lpc = "call" /\ ddi_fwd = None /\ ddi_rev = None
  /\ drug_map = EmptyMap /\ drug_list = <<>> /\ ner_pipeline = FALSE
  /\ scorer = <<>> /\ api_key = TRUE
  /\ IdleExtract /\ IdleHandler

\* lines 132-143, once per order of the two names
QueryBothWays ==
  /\ lpc = "call"
  /\ ddi_fwd' = query_ddi_database(drug1, drug2)
  /\ ddi_rev' = query_ddi_database(drug2, drug1)
  /\ lpc' = "queried"
  /\ UNCHANGED <<drug1, drug2>>
  /\ UNCHANGED <<envVars, extractVars, handlerVars>>

NextLookup == QueryBothWays

SpecLookup == InitLookup /\ [][NextLookup]_vars

\* C2: query_ddi_database(a, b) and query_ddi_database(b, a) return the same
\* outcome, both None or both the same level, for every table content.
C2_LookupSymmetric ==
  lpc = "queried" =>
    /\ ddi_fwd = ddi_rev
    /\ (ddi_fwd = None) <=>
         (~db_path \/ \A k \in 1..Len(ddi_interactions) :
              ~(\/ (Lower(ddi_interactions[k][1]) = Lower(drug1)
                     /\ Lower(ddi_interactions[k][2]) = Lower(drug2))
                \/ (Lower(ddi_interactions[k][1]) = Lower(drug2)
                     /\ Lower(ddi_interactions[k][2]) = Lower(drug1))))

\* the table holds the pair in both orders with different levels, in another
\* letter case than the query, and both queries return the same level
C2_Witness ==
  /\ lpc = "queried" /\ ddi_fwd # None /\ ddi_fwd = ddi_rev
  /\ Lower(drug1) # Lower(drug2)
  /\ Len(ddi_interactions) = 2
  /\ ddi_interactions[1][1] # drug1 /\ Lower(ddi_interactions[1][1]) = Lower(drug1)
  /\ Lower(ddi_interactions[1][2]) = Lower(drug2)
  /\ Lower(ddi_interactions[2][1]) = Lower(drug2)
  /\ Lower(ddi_interactions[2][2]) = Lower(drug1)
  /\ ddi_interactions[1][3] # ddi_interactions[2][3]

(* ---------------------------------------------------------------------- *)
(* The handler of the Analyze button (lines 188-217)                       *)
(* ---------------------------------------------------------------------- *)
\* the level passed for the generic narrative
Unknown == <<"u", "n", "k", "n", "o", "w", "n">>

\* one entry of the log of calls made and elements shown
Event(op, d1, d2, level, res) ==
  [op |-> op, d1 |-> d1, d2 |-> d2, level |-> level, res |-> res]

Show(what) == Event("show", <<>>, <<>>, <<>>, what)

\* a plausible slip: or in place of and
EnoughTermsEither(cur, new) == cur # <<>> \/ new # <<>>

\* line 200: if current_terms and new_terms
EnoughTerms(cur, new) == cur # <<>> /\ new # <<>>

\* a plausible slip: the last detected terms in place of the first
GenericPairLast(cur, new) == <<cur[Len(cur)], new[Len(new)]>>

\* line 214: current_terms[0], new_terms[0]
GenericPair(cur, new) == <<cur[1], new[1]>>

\* texts typed into the two fields
HandlerTexts == {<<" ">>, sa, <<"A", ",", "b">>}

\* the data files and recognizer outcomes the handler is run against
HandlerMaps == {EmptyMap, (sa :> sb)}
HandlerLists == {<<>>, <<sb>>}
HandlerNerOutcomes == {o \in NerOutcomes : Len(o.words) <= 1}

\* contents of ddi_interactions
TableChoices ==
  { <<>>,
    << <<sA, sb, sA>> >>,
    << <<sa, sb, sA>>, <<sb, sa, sb>> >>,
    << <<sb, sb, sb>>, <<sa, sa, sA>> >> }

Init ==
  /\ drug_map \in HandlerMaps
  /\ drug_list \in HandlerLists
  /\ ner_pipeline \in BOOLEAN
  /\ current_input \in HandlerTexts
  /\ new_input \in HandlerTexts
  /\ scorer \in Scorers((Layer1Further(PotentialTerms(current_input))
                           \cup Layer1Further(PotentialTerms(new_input)))
                        \X Range(drug_list))
  /\ db_path \in BOOLEAN
  /\ ddi_interactions \in TableChoices
  /\ api_key \in BOOLEAN
  /\ pc = "pressed"
  /\ current_terms = <<>> /\ new_terms = <<>>
  /\ pair_i = 0 /\ pair_j = 0 /\ interaction_found = FALSE
  /\ ddi = None /\ events = <<>>
  /\ IdleExtract /\ IdleLookup

\* lines 189-190: a blank field ends the run with a warning
BlankField ==
  /\ pc = "pressed"
  /\ (Strip(current_input) = <<>> \/ Strip(new_input) = <<>>)
  /\ events' = Append(events, Show("fill_both"))
  /\ pc' = "done"
  /\ UNCHANGED <<current_input, new_input, current_terms, new_terms,
                 pair_i, pair_j, interaction_found, ddi>>
  /\ UNCHANGED <<envVars, extractVars, lookupVars>>

\* line 193: current_terms = extract_terms(current_input); the list is the
\* set in whatever order the set iterates
ExtractCurrent ==
  /\ pc = "pressed"
  /\ Strip(current_input) # <<>> /\ Strip(new_input) # <<>>
  /\ \E outcome \in IF ner_pipeline THEN HandlerNerOutcomes ELSE {NotCalled} :
       current_terms' \in Orderings(extract_terms(current_input, outcome))
  /\ pc' = "extract_new"
  /\ UNCHANGED <<current_input, new_input, new_terms,
                 pair_i, pair_j, interaction_found, ddi, events>>
  /\ UNCHANGED <<envVars, extractVars, lookupVars>>

\* lines 194-201 and 216-217: new_terms = extract_terms(new_input), the
\* detected terms are shown, and the loops are entered or the run ends
ExtractNew ==
  /\ pc = "extract_new"
  /\ \E outcome \in IF ner_pipeline THEN HandlerNerOutcomes ELSE {NotCalled} :
       new_terms' \in Orderings(extract_terms(new_input, outcome))
  /\ IF EnoughTerms(current_terms, new_terms')
     THEN /\ interaction_found' = FALSE
          /\ events' = Append(events, Show("detected"))
          /\ IF Len(current_terms) * Len(new_terms') > 0
             THEN pair_i' = 1 /\ pair_j' = 1 /\ pc' = "lookup"
             ELSE pair_i' = 0 /\ pair_j' = 0 /\ pc' = "after_loop"
     ELSE /\ events' = events \o <<Show("detected"), Show("not_enough_terms")>>
          /\ pc' = "done"
          /\ UNCHANGED <<pair_i, pair_j, interaction_found>>
  /\ UNCHANGED <<current_input, new_input, current_terms, ddi>>
  /\ UNCHANGED <<envVars, extractVars, lookupVars>>

\* the for statements of lines 202-203 step to the next pair or leave
NextPair ==
  IF pair_j < Len(new_terms)
  THEN pair_j' = pair_j + 1 /\ pair_i' = pair_i /\ pc' = "lookup"
  ELSE IF pair_i < Len(current_terms)
       THEN pair_i' = pair_i + 1 /\ pair_j' = 1 /\ pc' = "lookup"
       ELSE pair_i' = pair_i /\ pair_j' = pair_j /\ pc' = "after_loop"

\* lines 204-209: the lookup of the current pair
Lookup ==
  /\ pc = "lookup"
  /\ LET d1 == current_terms[pair_i]
         d2 == new_terms[pair_j]
         found == query_ddi_database(d1, d2)
         asked == IF db_path
                  THEN <<Event("query", d1, d2, <<>>, "none")>>
                  ELSE <<Event("query", d1, d2, <<>>, "none"), Show("db_unavailable")>>
     IN /\ ddi' = found
        /\ IF found # None
           THEN /\ interaction_found' = TRUE
                /\ events' = events \o
                     << Event("query", d1, d2, found[1], "hit"),
                        Event("show", d1, d2, Lower(found[1]), "interaction_found") >>
                /\ pc' = "narrative"
                /\ UNCHANGED <<pair_i, pair_j>>
           ELSE /\ events' = events \o asked
                /\ NextPair
                /\ UNCHANGED interaction_found
  /\ UNCHANGED <<current_input, new_input, current_terms, new_terms>>
  /\ UNCHANGED <<envVars, extractVars, lookupVars>>

\* lines 210-211: the narrative of a pair with a stored record
Narrative ==
  /\ pc = "narrative"
  /\ \E response \in Responses :
       LET details == get_llm_details_from_openrouter(response)
           call == Event("llm", current_terms[pair_i], new_terms[pair_j],
                         Lower(ddi[1]), details)
       IN IF details = "raised"
          THEN /\ events' = Append(events, call)
               /\ pc' = "crashed"
               /\ UNCHANGED <<pair_i, pair_j>>
          ELSE /\ events' = events \o <<call, Show("details")>>
               /\ NextPair
  /\ UNCHANGED <<current_input, new_input, current_terms, new_terms,
                 interaction_found, ddi>>
  /\ UNCHANGED <<envVars, extractVars, lookupVars>>

\* lines 212-213
AfterLoop ==
  /\ pc = "after_loop"
  /\ IF ~interaction_found
     THEN events' = Append(events, Show("no_specific")) /\ pc' = "generic"
     ELSE events' = events /\ pc' = "done"
  /\ UNCHANGED <<current_input, new_input, current_terms, new_terms,
                 pair_i, pair_j, interaction_found, ddi>>
  /\ UNCHANGED <<envVars, extractVars, lookupVars>>

\* lines 214-215: the generic narrative; indexing an empty list raises
Generic ==
  /\ pc = "generic"
  /\ IF current_terms = <<>> \/ new_terms = <<>>
     THEN pc' = "crashed" /\ events' = events
     ELSE \E response \in Responses :
            LET details == get_llm_details_from_openrouter(response)
                pair == GenericPair(current_terms, new_terms)
                call == Event("llm", pair[1], pair[2], Unknown, details)
            IN IF details = "raised"
               THEN events' = Append(events, call) /\ pc' = "crashed"
               ELSE events' = events \o <<call, Show("details")>> /\ pc' = "done"
  /\ UNCHANGED <<current_input, new_input, current_terms, new_terms,
                 pair_i, pair_j, interaction_found, ddi>>
  /\ UNCHANGED <<envVars, extractVars, lookupVars>>

Next ==
  \/ BlankField \/ ExtractCurrent \/ ExtractNew
  \/ Lookup \/ Narrative \/ AfterLoop \/ Generic

Spec == Init /\ [][Next]_vars

(* ---------------------------------------------------------------------- *)
(* Properties of the handler                                               *)
(* ---------------------------------------------------------------------- *)
Terminal == pc \in {"done", "crashed"}

IsQuery(e) == e.op = "query"
IsLlm(e) == e.op = "llm"
IsGenericLlm(e) == e.op = "llm" /\ e.level = Unknown

\* current_terms x new_terms, outer loop current, inner loop new
PairsInOrder ==
  [k \in 1..(Len(current_terms) * Len(new_terms)) |->
     <<current_terms[((k - 1) \div Len(new_terms)) + 1],
       new_terms[((k - 1) % Len(new_terms)) + 1]>>]

\* the table can be read and holds a row for the pair, in either order and
\* any letter case
HasRecord(d1, d2) ==
  /\ db_path
  /\ \E k \in 1..Len(ddi_interactions) :
       \/ (Lower(ddi_interactions[k][1]) = Lower(d1) /\ Lower(ddi_interactions[k][2]) = Lower(d2))
       \/ (Lower(ddi_interactions[k][1]) = Lower(d2) /\ Lower(ddi_interactions[k][2]) = Lower(d1))

\* C3: with both term lists non-empty, the generic narrative (level
\* "unknown") is requested at most once, for (current_terms[0],
\* new_terms[0]), and at the end of the run it has been requested if and only
\* if the lookup of every pair of current_terms x new_terms returned None;
\* once a lookup has returned a record no generic narrative is requested, and
\* an interaction block is shown only for a pair that has a record.
C3_GenericNarrativeIffNothingFound ==
  (current_terms # <<>> /\ new_terms # <<>>) =>
    LET queries == SelectSeq(events, IsQuery)
        generic == SelectSeq(events, IsGenericLlm)
        allNone == /\ Len(queries) = Len(current_terms) * Len(new_terms)
                   /\ \A k \in 1..Len(queries) : queries[k].res = "none"
    IN /\ Len(generic) <= 1
       /\ Len(generic) = 1 =>
            /\ generic[1].d1 = current_terms[1] /\ generic[1].d2 = new_terms[1]
            /\ allNone
       /\ Terminal => (Len(generic) = 1 <=> allNone)
       /\ (\E k \in 1..Len(queries) : queries[k].res = "hit") => Len(generic) = 0
       /\ \A k \in 1..Len(events) :
            (events[k].op = "show" /\ events[k].res = "interaction_found")
              => HasRecord(events[k].d1, events[k].d2)

\* several pairs, a readable table without a record for any of them, and the
\* one generic narrative returned
C3_Witness ==
  /\ pc = "done" /\ db_path
  /\ Len(current_terms) * Len(new_terms) >= 2
  /\ current_terms[1] # current_terms[Len(current_terms)]
  /\ Len(SelectSeq(events, IsGenericLlm)) = 1
  /\ Len(SelectSeq(events, IsQuery)) = Len(current_terms) * Len(new_terms)

\* C5 as stated: every call of get_llm_details_from_openrouter returns a
\* string, whatever the completion API answers; no exception leaves it and
\* the run goes on.
C5_NarrativeNeverRaises ==
  /\ pc # "crashed"
  /\ \A k \in 1..Len(events) : events[k].op = "llm" => events[k].res # "raised"

\* C6 as stated: when the database file is not available the analysis stops
\* at the first lookup: no second lookup and no narrative request, per-pair
\* or generic, is made in that run.
C6_DataUnavailableStopsAnalysis ==
  ~db_path =>
    /\ Len(SelectSeq(events, IsQuery)) <= 1
    /\ Len(SelectSeq(events, IsLlm)) = 0

\* a field is blank, or an extraction has returned no term
Insufficient ==
  \/ Strip(current_input) = <<>> \/ Strip(new_input) = <<>>
  \/ (pc # "pressed" /\ current_terms = <<>>)
  \/ (pc \notin {"pressed", "extract_new"} /\ new_terms = <<>>)

\* C7: when a field is blank or extract_terms returns no term for a side, no
\* lookup and no narrative request is made in that run, and the run ends by
\* telling the user that no analysis is possible.
C7_InsufficientInputMakesNoCalls ==
  Insufficient =>
    /\ \A k \in 1..Len(events) : events[k].op \notin {"query", "llm"}
    /\ Terminal =>
         /\ pc = "done"
         /\ events # <<>>
         /\ events[Len(events)].res \in {"fill_both", "not_enough_terms"}

\* both fields filled in, a term found on one side only
C7_Witness ==
  /\ pc = "done"
  /\ Strip(current_input) # <<>> /\ Strip(new_input) # <<>>
  /\ current_terms # <<>> /\ new_terms = <<>>
  /\ events[Len(events)].res = "not_enough_terms"

\* C8 as stated: by the end of a run with terms on both sides the lookup has
\* been made exactly once for every pair of current_terms x new_terms, in
\* loop order, and every pair with a stored record has exactly one narrative
\* request, with the stored level lowercased, made after its lookup and
\* before the next lookup.
C8_EveryPairLookedUpOnceInOrder ==
  (Terminal /\ current_terms # <<>> /\ new_terms # <<>>) =>
    LET queries == SelectSeq(events, IsQuery)
    IN /\ Len(queries) = Len(PairsInOrder)
       /\ \A k \in 1..Len(queries) :
            queries[k].d1 = PairsInOrder[k][1] /\ queries[k].d2 = PairsInOrder[k][2]
       /\ \A k \in 1..Len(events) :
            (events[k].op = "query" /\ events[k].res = "hit") =>
              /\ \E m \in (k + 1)..Len(events) :
                   /\ events[m].op = "llm"
                   /\ events[m].d1 = events[k].d1 /\ events[m].d2 = events[k].d2
                   /\ events[m].level = Lower(events[k].level)
                   /\ \A n \in (k + 1)..(m - 1) : events[n].op = "show"
              /\ Cardinality({m \in 1..Len(events) :
                                /\ events[m].op = "llm" /\ events[m].level # Unknown
                                /\ events[m].d1 = events[k].d1
                                /\ events[m].d2 = events[k].d2}) = 1
       /\ \A m \in 1..Len(events) :
            (events[m].op = "llm" /\ events[m].level # Unknown) =>
              \E k \in 1..(m - 1) :
                /\ events[k].op = "query" /\ events[k].res = "hit"
                /\ events[k].d1 = events[m].d1 /\ events[k].d2 = events[m].d2
                /\ \A n \in (k + 1)..(m - 1) : events[n].op = "show"

====
